---- MODULE Spec2Model ----
(***************************************************************************)
(* KeyShield Vault API: the API-key lifecycle (create, rotate-on-use,      *)
(* revoke), its session gate and its audit trail.                          *)
(*                                                                         *)
(* The store is the SQLite database of api/db.js.  Every SQL statement is  *)
(* one atomic step; a request handler is the sequence of its statements.   *)
(* Spec lets the statements of different requests interleave (several      *)
(* server processes on one database file, the concurrency model of the     *)
(* design); SeqSpec runs every request to completion before the next one   *)
(* starts (one Node process: the handlers are synchronous).  CollSpec is   *)
(* Spec over CSPRNG runs that repeat values, MetricsSpec interleaves the   *)
(* queries of a /metrics scrape with the key requests, AuthSpec adds       *)
(* login, restarts and scrapes to sequential requests over a longer time,  *)
(* FaultSpec lets the audit INSERT fail, AuditSpec applies the audit       *)
(* listing to long audit tables, and UiSpec runs the browser's client      *)
(* component against the access route.                                     *)
(*                                                                         *)
(* Strings that the code takes apart (raw keys) are sequences of           *)
(* one-character strings.  The audit columns ip, meta and created_at are   *)
(* written and never read by the API; they are left out of the rows.       *)
(***************************************************************************)
EXTENDS Integers, Sequences, FiniteSets, TLC

(* ------------------------------ bounds ------------------------------- *)
\* random key values that the CSPRNG yields in one run (pool and stream length)
MaxIssued == 3
\* rows that createKey may insert
MaxKeys == 2
\* revokeKey requests that reach the UPDATE
MaxRevokes == 2
\* last value of the clock (hours)
MaxTime == 1
\* bytes per raw key (the code draws 32)
NumBytes == 3
\* last value of the clock in the runs with logins (hours)
MaxAuthTime == 2
\* successful logins
MaxLogins == 1
\* restarts of the server process
MaxRestarts == 1
\* entries of the audit log in the runs that start from a long log
MaxAuditLen == 52

(* ------------------------- program constants ------------------------- *)
\* jwt.sign(..., { expiresIn: "2h" })
TokenTTL == 2
JWT_SECRET == "dev-secret-change-me"
\* the environment of the server process: env.KEY_PEPPER is "" when unset
VARIABLE env

\* process.env.KEY_PEPPER || "pepper-change-me", as a string that is appended
PEPPER == IF env.KEY_PEPPER = "" THEN <<"pepper-change-me">> ELSE <<env.KEY_PEPPER>>

\* The request slots: requests in flight at the same time.  The server keeps
\* no state per connection, so a new access request takes the lowest free slot.
Clients == {1, 2}
Admins == {0}
Procs == Clients \cup Admins

NullTime == -1
NoKey == <<>>
\* a header value that no generateRawKey call produces
Garbage == <<"z">>

(* --------------------- key derivation (pure code) -------------------- *)
HexDigits ==
  <<"0", "1", "2", "3", "4", "5", "6", "7", "8", "9", "a", "b", "c", "d", "e", "f">>

ByteToHex(b) == <<HexDigits[(b \div 16) + 1], HexDigits[(b % 16) + 1]>>

RECURSIVE ToHex(_)
ToHex(bytes) ==
  IF bytes = <<>> THEN <<>> ELSE ByteToHex(Head(bytes)) \o ToHex(Tail(bytes))

\* crypto.randomBytes(n).toString("hex") on the bytes the CSPRNG returned
generateRawKey(bytes) == ToHex(bytes)

\* sha256 is a one-way function without collisions in the model: a free
\* constructor over its input, rawKey + PEPPER
Sha256Hex(input) == <<"sha256", input>>

fingerprintKey(rawKey) == Sha256Hex(rawKey \o PEPPER)

\* The client access route is a module of its own: it reads KEY_PEPPER itself
\* and has its own copy of fingerprintKey.
clientPEPPER == IF env.KEY_PEPPER = "" THEN <<"pepper-change-me">> ELSE <<env.KEY_PEPPER>>

\* Faulty copy: the access route appends another default pepper.
clientFingerprintKey_OtherPepper(rawKey) == Sha256Hex(rawKey \o <<"pepper">>)

clientFingerprintKey(rawKey) == Sha256Hex(rawKey \o clientPEPPER)

\* bcrypt: the encoded hash carries the salt, the digest depends on both
hashSync(rawKey, salt) == [salt |-> salt, digest |-> <<"bcrypt", salt, rawKey>>]

compareSync(rawKey, hash) == hashSync(rawKey, hash.salt).digest = hash.digest

\* rawKey.slice(-4)
Last4(rawKey) ==
  IF Len(rawKey) <= 4 THEN rawKey ELSE SubSeq(rawKey, Len(rawKey) - 3, Len(rawKey))

(* --------------------------- random source --------------------------- *)
\* The j-th value of the pool: bytes <<hi, 0, ..., 0, lo>>; neighbours share
\* their last two bytes, so distinct keys can have the same last4.
PoolBytes(j) ==
  [i \in 1..NumBytes |->
     IF i = 1 THEN (j - 1) % 2
     ELSE IF i = NumBytes THEN (j - 1) \div 2
     ELSE 0]

\* One run of the CSPRNG: MaxIssued distinct draws, each with a bcrypt salt.
Stream(seed) ==
  [j \in 1..MaxIssued |->
     [bytes |-> PoolBytes(((seed + j - 1) % MaxIssued) + 1), salt |-> (seed + j) % 2]]

Seeds == {0, 1}

\* the bcrypt salts of the CSPRNG runs
Salts == {0, 1}

Streams == {Stream(seed) : seed \in Seeds}

PoolKeys == {generateRawKey(PoolBytes(j)) : j \in 1..MaxIssued}

\* Runs in which randomBytes returns a value again (nothing in the code rules
\* it out): the draws alternate between two values, or come in equal pairs.
CollStream(seed) ==
  [j \in 1..MaxIssued |->
     [bytes |-> PoolBytes(IF seed = 0 THEN (j % 2) + 1 ELSE (((j + 1) \div 2) % 2) + 1),
      salt |-> (seed + j) % 2]]

CollStreams == {CollStream(seed) : seed \in Seeds}

(* ------------------------------ sessions ----------------------------- *)
jwtSign(payload, secret, iat) ==
  [payload |-> payload, exp |-> iat + TokenTTL, sig |-> <<"HS256", payload, iat + TokenTTL, secret>>]

\* Faulty verification: jwt.verify with ignoreExpiration, only the signature
\* is checked.
jwtVerify_IgnoreExpiration(token, secret, t) ==
  token.sig = <<"HS256", token.payload, token.exp, secret>>

\* jwt.verify: the signature is the one the secret gives, and not expired
jwtVerify(token, secret, t) ==
  /\ token.sig = <<"HS256", token.payload, token.exp, secret>>
  /\ t < token.exp

NoToken == [payload |-> [username |-> ""], exp |-> 0, sig |-> <<>>]
\* the token a login of admin at time 0 returns
AdminToken == jwtSign([username |-> "admin"], JWT_SECRET, 0)
ForgedToken == jwtSign([username |-> "admin"], "guess", 0)
\* the token of a login one hour before the model's first hour: it expires
\* at hour 1
OldToken == jwtSign([username |-> "admin"], JWT_SECRET, 1 - TokenTTL)
\* a bearer value that is not a signed token
MalformedToken == [payload |-> [username |-> "admin"], exp |-> TokenTTL, sig |-> <<"junk">>]
\* Authorization headers: none, "Bearer <token>"
Headers == {NoToken, AdminToken, ForgedToken, OldToken, MalformedToken}

(* -------------------------------- state ------------------------------ *)
VARIABLES
  api_keys,    \* table api_keys: sequence of rows, row i has id i
  audit_logs,  \* table audit_logs: sequence of entries, entry i has id i
  rng,         \* the draws the CSPRNG has still to return
  now,         \* the clock
  pc,          \* per request slot: the statement it executes next
  req,         \* per request slot: the handler's local variables
  resp,        \* the response sent last
  issued,      \* history: the raw keys written to the store, in order
  grantLog,    \* history: the granted accesses, in order
  revokedOk,   \* history: key ids for which revokeKey has answered ok
  disclosed,   \* history: the raw keys that a response has carried
  users,       \* table users: sequence of rows, row i has id i
  sessions,    \* history: the tokens that login has issued
  boots,       \* restarts of the server process so far
  scrape,      \* the /metrics handler: its position and query results
  ui           \* the ClientComponent in the browser: its fields and position

\* the state that the key routes do not touch
serviceVars == <<env, users, sessions, boots, scrape, ui>>

vars ==
  <<api_keys, audit_logs, rng, now, pc, req, resp, issued, grantLog, revokedOk, disclosed,
    env, users, sessions, boots, scrape, ui>>

NoRow ==
  [id |-> 0, label |-> "", status |-> "NONE", key_hash |-> hashSync(NoKey, 0),
   key_fingerprint |-> <<>>, key_last4 |-> <<>>, rotation_count |-> 0,
   created_at |-> NullTime, last_used_at |-> NullTime, last_rotated_at |-> NullTime,
   revoked_at |-> NullTime, revocation_reason |-> "NULL"]

NoReq ==
  [rawKey |-> NoKey, row |-> NoRow, newKey |-> NoKey, id |-> 0, actor |-> "", label |-> ""]

\* a response: status code, error text, the raw key in the body (raw_key_once
\* or rotated_key_once), the key id in the body; presented is the x-api-key
\* header of the request it answers; body holds the other records of the
\* JSON body (the rows of a list, the metadata of a created key)
NoResp ==
  [status |-> 0, error |-> "", key |-> NoKey, id |-> 0, presented |-> NoKey, body |-> <<>>]

Response(status, error, key, id, presented) ==
  [status |-> status, error |-> error, key |-> key, id |-> id, presented |-> presented,
   body |-> <<>>]

\* res.json(rows) and res.json({...}) with status 200
ResponseBody(key, id, body) ==
  [status |-> 200, error |-> "", key |-> key, id |-> id, presented |-> NoKey, body |-> body]

KeyIds == 1..Len(api_keys)

\* seedAdmin on an empty users table: bcrypt.hashSync("admin123", 10)
SeededUsers(salt) ==
  <<[id |-> 1, username |-> "admin", password_hash |-> hashSync("admin123", salt)]>>

\* the /metrics handler at rest; active and revoked are its local variables,
\* seen is history: the values that the three queries would have returned in
\* each state of the store since the handler's first query
NoScrape == [pc |-> "idle", active |-> 0, revoked |-> 0, seen |-> {}]

\* the process has started with KEY_PEPPER and JWT_SECRET unset and has seeded
\* the admin user
\* ClientComponent after construction; pc is the position of accessAsset
\* ("sent": awaiting clientAccess), prev is history: how the call before ended
NoUi ==
  [apiKey |-> NoKey, accessMsg |-> "", rotatedKey |-> NoKey, error |-> "", loading |-> FALSE,
   pc |-> "idle", prev |-> "none"]

ServiceInit ==
  /\ env = [KEY_PEPPER |-> ""]
  /\ users = SeededUsers(0)
  /\ sessions = {}
  /\ boots = 0
  /\ scrape = NoScrape
  /\ ui = NoUi

Init ==
  /\ api_keys = <<>>
  /\ audit_logs = <<>>
  /\ rng \in Streams
  /\ now = 0
  /\ pc = [p \in Procs |-> "idle"]
  /\ req = [p \in Procs |-> NoReq]
  /\ resp = NoResp
  /\ issued = <<>>
  /\ grantLog = <<>>
  /\ revokedOk = {}
  /\ disclosed = {}
  /\ ServiceInit

\* the state after construction when the CSPRNG run repeats values
CollInit ==
  /\ api_keys = <<>>
  /\ audit_logs = <<>>
  /\ rng \in CollStreams
  /\ now = 0
  /\ pc = [p \in Procs |-> "idle"]
  /\ req = [p \in Procs |-> NoReq]
  /\ resp = NoResp
  /\ issued = <<>>
  /\ grantLog = <<>>
  /\ revokedOk = {}
  /\ disclosed = {}
  /\ ServiceInit

(* --------------------------- store operations ------------------------ *)
\* SELECT * FROM api_keys WHERE key_fingerprint = ?  (the column is UNIQUE)
SelectByFingerprint(fp) ==
  IF \E i \in KeyIds : api_keys[i].key_fingerprint = fp
  THEN api_keys[CHOOSE i \in KeyIds : api_keys[i].key_fingerprint = fp]
  ELSE NoRow

\* Faulty schema: key_fingerprint is not declared UNIQUE.
FingerprintTaken_NoConstraint(fp, id) == FALSE

\* the UNIQUE constraint on key_fingerprint: a write of fp to row id is refused
\* when another row holds fp
FingerprintTaken(fp, id) ==
  \E i \in KeyIds : i # id /\ api_keys[i].key_fingerprint = fp

\* SELECT COUNT(*) FROM api_keys WHERE status = ?
CountStatus(keys, status) ==
  Cardinality({id \in 1..Len(keys) : keys[id].status = status})

\* SELECT COALESCE(SUM(rotation_count),0) FROM api_keys
RECURSIVE SumRotation(_)
SumRotation(keys) ==
  IF keys = <<>> THEN 0 ELSE Head(keys).rotation_count + SumRotation(Tail(keys))

\* what the three queries of /metrics return on the table keys
Counts(keys) ==
  [active |-> CountStatus(keys, "ACTIVE"), revoked |-> CountStatus(keys, "REVOKED"),
   rotSum |-> SumRotation(keys)]

\* a write to api_keys while a scrape is in progress is recorded in its history
Observed(keys) ==
  IF scrape.pc = "idle" THEN scrape ELSE [scrape EXCEPT !.seen = @ \cup {Counts(keys)}]

\* Faulty audit write: the table is capped, the oldest entry is deleted once
\* it holds more than two.
audit_Capped(actor, action, targetType, targetId) ==
  LET logs == Append(audit_logs,
                     [id |-> Len(audit_logs) + 1, actor |-> actor, action |-> action,
                      target_type |-> targetType, target_id |-> targetId])
  IN IF Len(logs) > 2 THEN Tail(logs) ELSE logs

\* Faulty audit write: the target is the newest key row, not the row of the
\* request.
audit_TargetsLatest(actor, action, targetType, targetId) ==
  Append(audit_logs,
         [id |-> Len(audit_logs) + 1, actor |-> actor, action |-> action,
          target_type |-> targetType, target_id |-> Len(api_keys)])

\* INSERT INTO audit_logs (actor, action, target_type, target_id, ...)
audit(actor, action, targetType, targetId) ==
  Append(audit_logs,
         [id |-> Len(audit_logs) + 1, actor |-> actor, action |-> action,
          target_type |-> targetType, target_id |-> targetId])

\* UPDATE api_keys SET last_used_at=? WHERE id=?
UpdateLastUsed(id, t) ==
  [i \in KeyIds |->
     IF i = id THEN [api_keys[i] EXCEPT !.last_used_at = t] ELSE api_keys[i]]

\* Faulty rotation UPDATEs, to show that the claims depend on the real one.
\* SET rotation_count=rotation_count+1, last_rotated_at=? : the secret is kept
UpdateRotation_CountOnly(id, newHash, newFp, newLast4, t) ==
  [i \in KeyIds |->
     IF i = id
     THEN [api_keys[i] EXCEPT !.rotation_count = api_keys[i].rotation_count + 1,
                              !.last_rotated_at = t]
     ELSE api_keys[i]]

\* key_fingerprint is missing from the SET list
UpdateRotation_StaleFingerprint(id, newHash, newFp, newLast4, t) ==
  [i \in KeyIds |->
     IF i = id
     THEN [api_keys[i] EXCEPT !.key_hash = newHash,
                              !.key_last4 = newLast4,
                              !.rotation_count = api_keys[i].rotation_count + 1,
                              !.last_rotated_at = t]
     ELSE api_keys[i]]

\* key_last4 is missing from the SET list
UpdateRotation_StaleLast4(id, newHash, newFp, newLast4, t) ==
  [i \in KeyIds |->
     IF i = id
     THEN [api_keys[i] EXCEPT !.key_hash = newHash,
                              !.key_fingerprint = newFp,
                              !.rotation_count = api_keys[i].rotation_count + 1,
                              !.last_rotated_at = t]
     ELSE api_keys[i]]

\* the SET list also has status='ACTIVE'
UpdateRotation_Reactivates(id, newHash, newFp, newLast4, t) ==
  [i \in KeyIds |->
     IF i = id
     THEN [api_keys[i] EXCEPT !.status = "ACTIVE",
                              !.key_hash = newHash,
                              !.key_fingerprint = newFp,
                              !.key_last4 = newLast4,
                              !.rotation_count = api_keys[i].rotation_count + 1,
                              !.last_rotated_at = t]
     ELSE api_keys[i]]

\* rotation_count=rotation_count+1 is missing from the SET list
UpdateRotation_NoIncrement(id, newHash, newFp, newLast4, t) ==
  [i \in KeyIds |->
     IF i = id
     THEN [api_keys[i] EXCEPT !.key_hash = newHash,
                              !.key_fingerprint = newFp,
                              !.key_last4 = newLast4,
                              !.last_rotated_at = t]
     ELSE api_keys[i]]

\* UPDATE api_keys SET key_hash=?, key_fingerprint=?, key_last4=?,
\*   rotation_count=rotation_count+1, last_rotated_at=? WHERE id=?
UpdateRotation(id, newHash, newFp, newLast4, t) ==
  [i \in KeyIds |->
     IF i = id
     THEN [api_keys[i] EXCEPT !.key_hash = newHash,
                              !.key_fingerprint = newFp,
                              !.key_last4 = newLast4,
                              !.rotation_count = api_keys[i].rotation_count + 1,
                              !.last_rotated_at = t]
     ELSE api_keys[i]]

\* Faulty revoke UPDATE: the WHERE clause is missing.
UpdateRevoked_NoWhere(id, t) ==
  [i \in KeyIds |->
     [api_keys[i] EXCEPT !.status = "REVOKED",
                         !.revoked_at = t,
                         !.revocation_reason = "MANUAL_REVOKE"]]

\* Faulty revoke: a hard delete, DELETE FROM api_keys WHERE id=?
UpdateRevoked_Deletes(id, t) == SelectSeq(api_keys, LAMBDA row : row.id # id)

\* UPDATE api_keys SET status='REVOKED', revoked_at=?,
\*   revocation_reason='MANUAL_REVOKE' WHERE id=?
UpdateRevoked(id, t) ==
  [i \in KeyIds |->
     IF i = id
     THEN [api_keys[i] EXCEPT !.status = "REVOKED",
                              !.revoked_at = t,
                              !.revocation_reason = "MANUAL_REVOKE"]
     ELSE api_keys[i]]

\* Faulty INSERT: the values for label and status are in each other's place.
InsertKey_SwappedColumns(label, hash, fp, last4, t) ==
  Append(api_keys,
         [id |-> Len(api_keys) + 1, label |-> "ACTIVE", status |-> label,
          key_hash |-> hash, key_fingerprint |-> fp, key_last4 |-> last4,
          rotation_count |-> 0, created_at |-> t, last_used_at |-> NullTime,
          last_rotated_at |-> NullTime, revoked_at |-> NullTime,
          revocation_reason |-> "NULL"])

\* INSERT INTO api_keys (label, status, key_hash, key_fingerprint, key_last4,
\*   created_at) VALUES (?, 'ACTIVE', ?, ?, ?, ?); rotation_count defaults to 0
InsertKey(label, hash, fp, last4, t) ==
  Append(api_keys,
         [id |-> Len(api_keys) + 1, label |-> label, status |-> "ACTIVE",
          key_hash |-> hash, key_fingerprint |-> fp, key_last4 |-> last4,
          rotation_count |-> 0, created_at |-> t, last_used_at |-> NullTime,
          last_rotated_at |-> NullTime, revoked_at |-> NullTime,
          revocation_reason |-> "NULL"])

\* Faulty column list: SELECT * FROM api_keys
KeyMetadata_AllColumns(row) == row

\* the columns that GET /admin/keys selects
KeyMetadata(row) ==
  [id |-> row.id, label |-> row.label, status |-> row.status,
   key_last4 |-> row.key_last4, rotation_count |-> row.rotation_count,
   created_at |-> row.created_at, last_used_at |-> row.last_used_at,
   last_rotated_at |-> row.last_rotated_at, revoked_at |-> row.revoked_at,
   revocation_reason |-> row.revocation_reason]

\* Faulty query: ORDER BY id DESC is missing, the rows come in insertion order.
SelectKeys_Unordered(keys) ==
  [i \in 1..Len(keys) |-> KeyMetadata(keys[i])]

\* SELECT id, label, status, key_last4, ... FROM api_keys ORDER BY id DESC
SelectKeys(keys) ==
  [i \in 1..Len(keys) |-> KeyMetadata(keys[Len(keys) + 1 - i])]

\* the LIMIT of GET /admin/audit
AuditLimit == 50

Min(x, y) == IF x <= y THEN x ELSE y

\* Faulty query: the LIMIT is missing.
SelectAudit_NoLimit(logs) ==
  [i \in 1..Len(logs) |-> logs[Len(logs) + 1 - i]]

\* SELECT ... FROM audit_logs ORDER BY id DESC LIMIT 50
SelectAudit(logs) ==
  [i \in 1..Min(AuditLimit, Len(logs)) |-> logs[Len(logs) + 1 - i]]

(* ------------------------- requests in flight ------------------------ *)
\* requests that have still to draw a key from the CSPRNG
NeedsDraw == {p \in Procs : pc[p] \in {"use", "auditUsed", "rotate"}}

\* a request starts only while the bounded CSPRNG run can still serve it
CanDraw == Len(rng) > Cardinality(NeedsDraw)

\* what a client may put in the x-api-key header: nothing, a wrong value, or
\* any raw key that a response has disclosed so far
Presentable == {NoKey, Garbage} \cup disclosed

(* ------------- POST /client/access (accessAndRotate) ----------------- *)
\* Faulty authentication: the status check is missing.
authenticateKey_NoStatusCheck(rawKey) ==
  LET row == SelectByFingerprint(clientFingerprintKey(rawKey)) IN
    IF rawKey = NoKey THEN [status |-> 400, error |-> "Missing x-api-key header", row |-> NoRow]
    ELSE IF row = NoRow THEN [status |-> 401, error |-> "Invalid key", row |-> NoRow]
    ELSE IF ~compareSync(rawKey, row.key_hash)
      THEN [status |-> 401, error |-> "Invalid key", row |-> NoRow]
    ELSE [status |-> 200, error |-> "", row |-> row]

\* Faulty authentication: the lookup has AND status='ACTIVE', a revoked key
\* looks like an unknown one.
authenticateKey_ActiveRowsOnly(rawKey) ==
  LET row == SelectByFingerprint(clientFingerprintKey(rawKey)) IN
    IF rawKey = NoKey THEN [status |-> 400, error |-> "Missing x-api-key header", row |-> NoRow]
    ELSE IF row = NoRow \/ row.status # "ACTIVE"
      THEN [status |-> 401, error |-> "Invalid key", row |-> NoRow]
    ELSE IF ~compareSync(rawKey, row.key_hash)
      THEN [status |-> 401, error |-> "Invalid key", row |-> NoRow]
    ELSE [status |-> 200, error |-> "", row |-> row]

\* The handler up to its first write: header check, fingerprint lookup,
\* status check and hash comparison.  The outcome is the status code of the
\* early return (400, 401, 403), or 200 and the matched row.
authenticateKey(rawKey) ==
  LET row == SelectByFingerprint(clientFingerprintKey(rawKey)) IN
    IF rawKey = NoKey THEN [status |-> 400, error |-> "Missing x-api-key header", row |-> NoRow]
    ELSE IF row = NoRow THEN [status |-> 401, error |-> "Invalid key", row |-> NoRow]
    ELSE IF row.status # "ACTIVE"
      THEN [status |-> 403, error |-> "Key not active (" \o row.status \o ")", row |-> NoRow]
    ELSE IF ~compareSync(rawKey, row.key_hash)
      THEN [status |-> 401, error |-> "Invalid key", row |-> NoRow]
    ELSE [status |-> 200, error |-> "", row |-> row]

\* Faulty handler: last_used_at is written right after the lookup, before the
\* status check, so a refused revoked key is recorded as used.
AccessLookup_TouchesOnFailure(p, rawKey) ==
  /\ pc[p] = "idle"
  /\ \A q \in Clients : q < p => pc[q] # "idle"
  /\ CanDraw
  /\ LET auth == authenticateKey(rawKey)
         row == SelectByFingerprint(clientFingerprintKey(rawKey))
     IN /\ IF auth.status # 200
           THEN /\ resp' = Response(auth.status, auth.error, NoKey, 0, rawKey)
                /\ UNCHANGED <<pc, req>>
           ELSE /\ req' = [req EXCEPT ![p] = [NoReq EXCEPT !.rawKey = rawKey, !.row = auth.row]]
                /\ pc' = [pc EXCEPT ![p] = "use"]
                /\ resp' = resp
        /\ api_keys' = IF rawKey # NoKey /\ row # NoRow
                       THEN UpdateLastUsed(row.id, now)
                       ELSE api_keys
  /\ UNCHANGED <<audit_logs, rng, now, issued, grantLog, revokedOk, disclosed>>
  /\ UNCHANGED serviceVars

AccessLookup(p, rawKey) ==
  /\ pc[p] = "idle"
  /\ \A q \in Clients : q < p => pc[q] # "idle"
  /\ CanDraw
  /\ LET auth == authenticateKey(rawKey) IN
       IF auth.status # 200
       THEN /\ resp' = Response(auth.status, auth.error, NoKey, 0, rawKey)
            /\ UNCHANGED <<pc, req>>
       ELSE /\ req' = [req EXCEPT ![p] = [NoReq EXCEPT !.rawKey = rawKey, !.row = auth.row]]
            /\ pc' = [pc EXCEPT ![p] = "use"]
            /\ resp' = resp
  /\ UNCHANGED <<api_keys, audit_logs, rng, now, issued, grantLog, revokedOk, disclosed>>
  /\ UNCHANGED serviceVars

\* UPDATE ... SET last_used_at
AccessUse(p) ==
  /\ pc[p] = "use"
  /\ api_keys' = UpdateLastUsed(req[p].row.id, now)
  /\ pc' = [pc EXCEPT ![p] = "auditUsed"]
  /\ UNCHANGED <<audit_logs, rng, now, req, resp, issued, grantLog, revokedOk, disclosed>>
  /\ UNCHANGED serviceVars

\* audit("KEY_USED", req, row.id, {})
AccessAuditUsed(p) ==
  /\ pc[p] = "auditUsed"
  /\ audit_logs' = audit("client", "KEY_USED", "api_key", req[p].row.id)
  /\ pc' = [pc EXCEPT ![p] = "rotate"]
  /\ UNCHANGED <<api_keys, rng, now, req, resp, issued, grantLog, revokedOk, disclosed>>
  /\ UNCHANGED serviceVars

\* generateRawKey, fingerprint, hash, last4 and the rotation UPDATE; a refused
\* UPDATE throws and the request ends with 500
AccessRotate(p) ==
  /\ pc[p] = "rotate"
  /\ rng # <<>>
  /\ LET newKey == generateRawKey(Head(rng).bytes)
         newFp == clientFingerprintKey(newKey)
         newHash == hashSync(newKey, Head(rng).salt)
         newLast4 == Last4(newKey)
         id == req[p].row.id
     IN IF FingerprintTaken(newFp, id)
        THEN /\ resp' = Response(500, "Internal Server Error", NoKey, 0, NoKey)
             /\ pc' = [pc EXCEPT ![p] = "idle"]
             /\ req' = [req EXCEPT ![p] = NoReq]
             /\ UNCHANGED <<api_keys, issued>>
        ELSE /\ api_keys' = UpdateRotation(id, newHash, newFp, newLast4, now)
             /\ req' = [req EXCEPT ![p].newKey = newKey]
             /\ issued' = Append(issued, [raw |-> newKey, id |-> id, via |-> "rotate"])
             /\ pc' = [pc EXCEPT ![p] = "auditRotated"]
             /\ resp' = resp
  /\ rng' = Tail(rng)
  /\ scrape' = Observed(api_keys')
  /\ UNCHANGED <<audit_logs, now, grantLog, revokedOk, disclosed>>
  /\ UNCHANGED <<env, users, sessions, boots, ui>>

\* Faulty response: rotated_key_once carries the presented key.
AccessAuditRotated_ReturnsPresented(p) ==
  /\ pc[p] = "auditRotated"
  /\ audit_logs' = audit("client", "KEY_ROTATED", "api_key", req[p].row.id)
  /\ resp' = Response(200, "", req[p].rawKey, req[p].row.id, req[p].rawKey)
  /\ grantLog' = Append(grantLog, [raw |-> req[p].rawKey, id |-> req[p].row.id,
                                  rotated |-> req[p].newKey])
  /\ pc' = [pc EXCEPT ![p] = "idle"]
  /\ req' = [req EXCEPT ![p] = NoReq]
  /\ disclosed' = disclosed \cup {req[p].rawKey}
  /\ UNCHANGED <<api_keys, rng, now, issued, revokedOk>>
  /\ UNCHANGED serviceVars

\* audit("KEY_ROTATED", req, row.id, {}) and the granted response
AccessAuditRotated(p) ==
  /\ pc[p] = "auditRotated"
  /\ audit_logs' = audit("client", "KEY_ROTATED", "api_key", req[p].row.id)
  /\ resp' = Response(200, "", req[p].newKey, req[p].row.id, req[p].rawKey)
  /\ grantLog' = Append(grantLog, [raw |-> req[p].rawKey, id |-> req[p].row.id,
                                  rotated |-> req[p].newKey])
  /\ pc' = [pc EXCEPT ![p] = "idle"]
  /\ req' = [req EXCEPT ![p] = NoReq]
  /\ disclosed' = disclosed \cup {req[p].newKey}
  /\ UNCHANGED <<api_keys, rng, now, issued, revokedOk>>
  /\ UNCHANGED serviceVars

(* ----------------------- operator endpoints -------------------------- *)
\* Faulty gate: jwt.decode instead of jwt.verify, the payload is read without
\* checking signature and expiry.
requireAuth_DecodeOnly(header, t) ==
  /\ header # NoToken
  /\ header.payload.username # ""

\* requireAuth: a bearer token that jwt.verify accepts
requireAuth(header, t) ==
  /\ header # NoToken
  /\ jwtVerify(header, JWT_SECRET, t)

\* the request bodies of POST /admin/keys: no label, or a label
Labels == {"", "k1"}

\* requireAuth answers 401 and the route handler does not run
AdminRejected(a, header) ==
  /\ pc[a] = "idle"
  /\ ~requireAuth(header, now)
  /\ resp' = Response(401, IF header = NoToken THEN "Missing token" ELSE "Invalid token",
                       NoKey, 0, NoKey)
  /\ req' = [req EXCEPT ![a] = NoReq]
  /\ UNCHANGED <<api_keys, audit_logs, rng, now, pc, issued, grantLog, revokedOk, disclosed>>
  /\ UNCHANGED serviceVars

\* POST /admin/keys: requireAuth, generateRawKey, fingerprint, hash, last4 and
\* the INSERT; a refused INSERT throws and the request ends with 500
CreateInsert(a, header, bodyLabel) ==
  /\ pc[a] = "idle"
  /\ requireAuth(header, now)
  /\ CanDraw
  /\ Len(api_keys) < MaxKeys
  /\ LET actor == header.payload.username
         label == IF bodyLabel # "" THEN bodyLabel ELSE "default"
         rawKey == generateRawKey(Head(rng).bytes)
         fp == fingerprintKey(rawKey)
         hash == hashSync(rawKey, Head(rng).salt)
         last4 == Last4(rawKey)
         id == Len(api_keys) + 1
     IN IF FingerprintTaken(fp, 0)
        THEN /\ resp' = Response(500, "Internal Server Error", NoKey, 0, NoKey)
             /\ req' = [req EXCEPT ![a] = NoReq]
             /\ UNCHANGED <<api_keys, pc, issued>>
        ELSE /\ api_keys' = InsertKey(label, hash, fp, last4, now)
             /\ req' = [req EXCEPT ![a] = [NoReq EXCEPT !.newKey = rawKey, !.id = id,
                                                       !.actor = actor, !.label = label]]
             /\ issued' = Append(issued, [raw |-> rawKey, id |-> id, via |-> "create"])
             /\ pc' = [pc EXCEPT ![a] = "auditCreate"]
             /\ resp' = resp
  /\ rng' = Tail(rng)
  /\ scrape' = Observed(api_keys')
  /\ UNCHANGED <<audit_logs, now, grantLog, revokedOk, disclosed>>
  /\ UNCHANGED <<env, users, sessions, boots, ui>>

\* audit(actor, "CREATE_KEY", ...) and the response { id, label, status,
\* key_last4, raw_key_once } from the handler's local variables
CreateAudit(a) ==
  /\ pc[a] = "auditCreate"
  /\ audit_logs' = audit(req[a].actor, "CREATE_KEY", "api_key", req[a].id)
  /\ resp' = ResponseBody(req[a].newKey, req[a].id,
                           <<[id |-> req[a].id, label |-> req[a].label, status |-> "ACTIVE",
                              key_last4 |-> Last4(req[a].newKey)]>>)
  /\ pc' = [pc EXCEPT ![a] = "idle"]
  /\ req' = [req EXCEPT ![a] = NoReq]
  /\ disclosed' = disclosed \cup {req[a].newKey}
  /\ UNCHANGED <<api_keys, rng, now, issued, grantLog, revokedOk>>
  /\ UNCHANGED serviceVars

\* GET /admin/keys: requireAuth, the SELECT and res.json(rows)
ListKeys(a, header) ==
  /\ pc[a] = "idle"
  /\ requireAuth(header, now)
  /\ resp' = ResponseBody(NoKey, 0, SelectKeys(api_keys))
  /\ req' = [req EXCEPT ![a] = NoReq]
  /\ UNCHANGED <<api_keys, audit_logs, rng, now, pc, issued, grantLog, revokedOk, disclosed>>
  /\ UNCHANGED serviceVars

\* GET /admin/audit: requireAuth, the SELECT and res.json(rows)
GetAudit(a, header) ==
  /\ pc[a] = "idle"
  /\ requireAuth(header, now)
  /\ resp' = ResponseBody(NoKey, 0, SelectAudit(audit_logs))
  /\ req' = [req EXCEPT ![a] = NoReq]
  /\ UNCHANGED <<api_keys, audit_logs, rng, now, pc, issued, grantLog, revokedOk, disclosed>>
  /\ UNCHANGED serviceVars

RevokesStarted ==
  Cardinality({j \in 1..Len(audit_logs) : audit_logs[j].action = "REVOKE_KEY"})
  + Cardinality({a \in Admins : pc[a] \in {"revUpdate", "auditRevoke"}})

\* DELETE /admin/keys/:id: requireAuth and SELECT id FROM api_keys WHERE id = ?
RevokeSelect(a, header, id) ==
  /\ pc[a] = "idle"
  /\ requireAuth(header, now)
  /\ RevokesStarted < MaxRevokes
  /\ IF id \notin KeyIds
     THEN /\ resp' = Response(404, "Key not found", NoKey, 0, NoKey)
          /\ req' = [req EXCEPT ![a] = NoReq]
          /\ pc' = pc
     ELSE /\ req' = [req EXCEPT ![a] = [NoReq EXCEPT !.id = id,
                                                    !.actor = header.payload.username]]
          /\ resp' = resp
          /\ pc' = [pc EXCEPT ![a] = "revUpdate"]
  /\ UNCHANGED <<api_keys, audit_logs, rng, now, issued, grantLog, revokedOk, disclosed>>
  /\ UNCHANGED serviceVars

\* UPDATE ... SET status='REVOKED'
RevokeUpdate(a) ==
  /\ pc[a] = "revUpdate"
  /\ api_keys' = UpdateRevoked(req[a].id, now)
  /\ pc' = [pc EXCEPT ![a] = "auditRevoke"]
  /\ scrape' = Observed(api_keys')
  /\ UNCHANGED <<audit_logs, rng, now, req, resp, issued, grantLog, revokedOk, disclosed>>
  /\ UNCHANGED <<env, users, sessions, boots, ui>>

\* audit(actor, "REVOKE_KEY", ...) and { ok: true }
RevokeAudit(a) ==
  /\ pc[a] = "auditRevoke"
  /\ audit_logs' = audit(req[a].actor, "REVOKE_KEY", "api_key", req[a].id)
  /\ resp' = Response(200, "", NoKey, req[a].id, NoKey)
  /\ revokedOk' = revokedOk \cup {req[a].id}
  /\ pc' = [pc EXCEPT ![a] = "idle"]
  /\ req' = [req EXCEPT ![a] = NoReq]
  /\ UNCHANGED <<api_keys, rng, now, issued, grantLog, disclosed>>
  /\ UNCHANGED serviceVars

\* time passes; the clock is coarse (hours), a request in flight ends within
\* the hour it started in
Tick ==
  /\ now < MaxTime
  /\ \A p \in Procs : pc[p] = "idle"
  /\ now' = now + 1
  /\ UNCHANGED <<api_keys, audit_logs, rng, pc, req, resp, issued, grantLog, revokedOk, disclosed>>
  /\ UNCHANGED serviceVars

(* ------------------------------- login ------------------------------- *)
NoUser == [id |-> 0, username |-> "", password_hash |-> hashSync("", 0)]

\* SELECT * FROM users WHERE username = ?  (the column is UNIQUE)
SelectUser(username) ==
  IF \E i \in 1..Len(users) : users[i].username = username
  THEN users[CHOOSE i \in 1..Len(users) : users[i].username = username]
  ELSE NoUser

\* the request bodies of POST /auth/login: fields missing, the seeded
\* credentials, wrong ones
Usernames == {"", "admin", "bob"}
Passwords == {"", "admin123", "letmein"}

\* Faulty handler: the two failed checks have different messages.
login_DistinctErrors(username, password, t) ==
  LET user == SelectUser(username) IN
    IF username = "" \/ password = ""
      THEN [status |-> 400, error |-> "username and password required", token |-> NoToken]
    ELSE IF user = NoUser
      THEN [status |-> 401, error |-> "Unknown user", token |-> NoToken]
    ELSE IF ~compareSync(password, user.password_hash)
      THEN [status |-> 401, error |-> "Wrong password", token |-> NoToken]
    ELSE [status |-> 200, error |-> "",
          token |-> jwtSign([username |-> username], JWT_SECRET, t)]

\* the handler of POST /auth/login: its status, error text and token
login(username, password, t) ==
  LET user == SelectUser(username) IN
    IF username = "" \/ password = ""
      THEN [status |-> 400, error |-> "username and password required", token |-> NoToken]
    ELSE IF user = NoUser
      THEN [status |-> 401, error |-> "Invalid credentials", token |-> NoToken]
    ELSE IF ~compareSync(password, user.password_hash)
      THEN [status |-> 401, error |-> "Invalid credentials", token |-> NoToken]
    ELSE [status |-> 200, error |-> "",
          token |-> jwtSign([username |-> username], JWT_SECRET, t)]

\* Faulty handler: every login attempt is written to the audit log.
Login_Audited(username, password) ==
  /\ LET out == login(username, password, now) IN
       IF out.status = 200
       THEN /\ Cardinality(sessions) < MaxLogins
            /\ resp' = ResponseBody(NoKey, 0, <<[token |-> out.token]>>)
            /\ sessions' = sessions \cup {[token |-> out.token, iat |-> now,
                                            username |-> username]}
       ELSE /\ resp' = Response(out.status, out.error, NoKey, 0, NoKey)
            /\ sessions' = sessions
  /\ audit_logs' = audit(username, "LOGIN", "user", 0)
  /\ UNCHANGED <<api_keys, rng, now, pc, req, issued, grantLog, revokedOk, disclosed>>
  /\ UNCHANGED <<env, users, boots, scrape, ui>>

\* POST /auth/login: one SELECT, no write; res.json({ token })
Login(username, password) ==
  /\ LET out == login(username, password, now) IN
       IF out.status = 200
       THEN /\ Cardinality(sessions) < MaxLogins
            /\ resp' = ResponseBody(NoKey, 0, <<[token |-> out.token]>>)
            /\ sessions' = sessions \cup {[token |-> out.token, iat |-> now,
                                            username |-> username]}
       ELSE /\ resp' = Response(out.status, out.error, NoKey, 0, NoKey)
            /\ sessions' = sessions
  /\ UNCHANGED <<api_keys, audit_logs, rng, now, pc, req, issued, grantLog, revokedOk, disclosed>>
  /\ UNCHANGED <<env, users, boots, scrape, ui>>

(* ------------------------------ restart ------------------------------ *)
\* Faulty seeding: the INSERT runs without the test for an existing row (and
\* username is not UNIQUE).
seedAdmin_NoTest(salt) ==
  Append(users, [id |-> Len(users) + 1, username |-> "admin",
                 password_hash |-> hashSync("admin123", salt)])

\* seedAdmin: INSERT the admin user unless a row with that username exists
seedAdmin(salt) ==
  IF SelectUser("admin") = NoUser
  THEN Append(users, [id |-> Len(users) + 1, username |-> "admin",
                      password_hash |-> hashSync("admin123", salt)])
  ELSE users

\* The process stops between two requests and starts again on the same
\* data.db: CREATE TABLE IF NOT EXISTS keeps the tables and seedAdmin runs.
Restart ==
  /\ boots < MaxRestarts
  /\ \A p \in Procs : pc[p] = "idle"
  /\ scrape.pc = "idle"
  /\ boots' = boots + 1
  /\ \E salt \in Salts : users' = seedAdmin(salt)
  /\ resp' = NoResp
  /\ UNCHANGED <<api_keys, audit_logs, rng, now, pc, req, issued, grantLog, revokedOk,
                 disclosed, env, sessions, scrape, ui>>

(* ------------------------------ metrics ------------------------------ *)
\* GET /metrics, first query: the ACTIVE count
ScrapeActive ==
  /\ scrape.pc = "idle"
  /\ scrape' = [pc |-> "revoked", active |-> CountStatus(api_keys, "ACTIVE"), revoked |-> 0,
                seen |-> {Counts(api_keys)}]
  /\ UNCHANGED <<api_keys, audit_logs, rng, now, pc, req, resp, issued, grantLog, revokedOk,
                 disclosed, env, users, sessions, boots, ui>>

\* second query: the REVOKED count
ScrapeRevoked ==
  /\ scrape.pc = "revoked"
  /\ scrape' = [scrape EXCEPT !.pc = "rotSum", !.revoked = CountStatus(api_keys, "REVOKED")]
  /\ UNCHANGED <<api_keys, audit_logs, rng, now, pc, req, resp, issued, grantLog, revokedOk,
                 disclosed, env, users, sessions, boots, ui>>

\* third query: the sum of rotation_count; the three gauges are set and the
\* response carries their values
ScrapeRotSum ==
  /\ scrape.pc = "rotSum"
  /\ resp' = ResponseBody(NoKey, 0,
                           <<[active_keys_total |-> scrape.active,
                              revoked_keys_total |-> scrape.revoked,
                              key_rotations_sum |-> SumRotation(api_keys)]>>)
  /\ scrape' = NoScrape
  /\ UNCHANGED <<api_keys, audit_logs, rng, now, pc, req, issued, grantLog, revokedOk,
                 disclosed, env, users, sessions, boots, ui>>

(* ------------------------ failing audit writes ----------------------- *)
\* The INSERT of audit() throws (disk full, database locked): the exception
\* leaves the handler at that statement and the router answers 500.  The
\* statements before it stay committed, no statement is inside a transaction.
AuditFails(p, at) ==
  /\ pc[p] = at
  /\ resp' = Response(500, "Internal Server Error", NoKey, 0, NoKey)
  /\ pc' = [pc EXCEPT ![p] = "idle"]
  /\ req' = [req EXCEPT ![p] = NoReq]
  /\ UNCHANGED <<api_keys, audit_logs, rng, now, issued, grantLog, revokedOk, disclosed>>
  /\ UNCHANGED serviceVars

\* audit("KEY_USED", ...) throws in POST /client/access
AccessAuditUsedFails(p) == AuditFails(p, "auditUsed")

\* audit("KEY_ROTATED", ...) throws in POST /client/access
AccessAuditRotatedFails(p) == AuditFails(p, "auditRotated")

\* audit(actor, "CREATE_KEY", ...) throws in POST /admin/keys
CreateAuditFails(a) == AuditFails(a, "auditCreate")

\* audit(actor, "REVOKE_KEY", ...) throws in DELETE /admin/keys/:id
RevokeAuditFails(a) == AuditFails(a, "auditRevoke")

(* -------------------------- client component ------------------------- *)
\* the user types into the field bound to apiKey
UiEdit(k) ==
  /\ ui.pc = "idle"
  /\ k # ui.apiKey
  /\ ui' = [ui EXCEPT !.apiKey = k, !.prev = "none"]
  /\ UNCHANGED <<api_keys, audit_logs, rng, now, pc, req, resp, issued, grantLog, revokedOk,
                 disclosed, env, users, sessions, boots, scrape>>

\* accessAsset up to the await: the fields are reset, loading is set and the
\* request leaves with the field's value as x-api-key; no response yet
UiStart ==
  /\ ui.pc = "idle"
  /\ \A p \in Procs : pc[p] = "idle"
  /\ ui' = [ui EXCEPT !.error = "", !.accessMsg = "", !.rotatedKey = NoKey, !.loading = TRUE,
                       !.pc = "sent"]
  /\ resp' = NoResp
  /\ UNCHANGED <<api_keys, audit_logs, rng, now, pc, req, issued, grantLog, revokedOk,
                 disclosed, env, users, sessions, boots, scrape>>

\* the server takes the component's request
UiRequest(p) ==
  /\ ui.pc = "sent"
  /\ resp = NoResp
  /\ \A q \in Procs : pc[q] = "idle"
  /\ AccessLookup(p, ui.apiKey)

\* ApiService.clientAccess after the fetch: a status other than 2xx throws
\* an Error with the body text, otherwise the parsed body is returned
clientAccess(r) ==
  IF r.status # 200
  THEN [ok |-> FALSE, message |-> r.error, asset_message |-> "", rotated_key_once |-> NoKey]
  ELSE [ok |-> TRUE, message |-> "",
        asset_message |-> "Sensitive asset accessed successfully.",
        rotated_key_once |-> r.key]

\* Faulty component: the rotated key is shown and the field keeps the old key.
accessAsset_KeepsKey(r) ==
  IF r.ok
  THEN [ui EXCEPT !.accessMsg = IF r.asset_message # "" THEN r.asset_message
                                ELSE "Access granted",
                  !.rotatedKey = r.rotated_key_once,
                  !.loading = FALSE, !.pc = "idle", !.prev = "ok"]
  ELSE [ui EXCEPT !.error = r.message, !.loading = FALSE, !.pc = "idle", !.prev = "failed"]

\* accessAsset after the await: try branch, catch branch, finally
accessAsset(r) ==
  IF r.ok
  THEN [ui EXCEPT !.accessMsg = IF r.asset_message # "" THEN r.asset_message
                                ELSE "Access granted",
                  !.rotatedKey = r.rotated_key_once,
                  !.apiKey = IF r.rotated_key_once # NoKey THEN r.rotated_key_once ELSE @,
                  !.loading = FALSE, !.pc = "idle", !.prev = "ok"]
  ELSE [ui EXCEPT !.error = r.message, !.loading = FALSE, !.pc = "idle", !.prev = "failed"]

\* the response arrives
UiComplete ==
  /\ ui.pc = "sent"
  /\ resp # NoResp
  /\ \A p \in Procs : pc[p] = "idle"
  /\ ui' = accessAsset(clientAccess(resp))
  /\ UNCHANGED <<api_keys, audit_logs, rng, now, pc, req, resp, issued, grantLog, revokedOk,
                 disclosed, env, users, sessions, boots, scrape>>

\* fetch rejects: the request did not reach the server, or its response did
\* not reach the browser
UiNetworkError ==
  /\ ui.pc = "sent"
  /\ \A p \in Procs : pc[p] = "idle"
  /\ ui' = accessAsset([ok |-> FALSE, message |-> "Failed to fetch", asset_message |-> "",
                         rotated_key_once |-> NoKey])
  /\ UNCHANGED <<api_keys, audit_logs, rng, now, pc, req, resp, issued, grantLog, revokedOk,
                 disclosed, env, users, sessions, boots, scrape>>

(* --------------------------- specifications -------------------------- *)
ClientStep(p) ==
  \/ \E rawKey \in Presentable : AccessLookup(p, rawKey)
  \/ AccessUse(p)
  \/ AccessAuditUsed(p)
  \/ AccessRotate(p)
  \/ AccessAuditRotated(p)

AdminStep(a) ==
  \/ \E header \in Headers : AdminRejected(a, header)
  \/ \E header \in Headers, bodyLabel \in Labels : CreateInsert(a, header, bodyLabel)
  \/ CreateAudit(a)
  \/ \E header \in Headers, id \in 1..(MaxKeys + 1) : RevokeSelect(a, header, id)
  \/ RevokeUpdate(a)
  \/ RevokeAudit(a)
  \/ \E header \in Headers : ListKeys(a, header)
  \/ \E header \in Headers : GetAudit(a, header)

\* the statements of all requests interleave
Next ==
  \/ \E p \in Clients : ClientStep(p)
  \/ \E a \in Admins : AdminStep(a)
  \/ Tick

Spec == Init /\ [][Next]_vars

\* no other request is in flight
Alone(p) == \A q \in Procs \ {p} : pc[q] = "idle"

\* one request at a time: a request runs from its first statement to its
\* response before any other request starts
SeqNext ==
  \/ \E p \in Clients : Alone(p) /\ ClientStep(p)
  \/ \E a \in Admins : Alone(a) /\ AdminStep(a)
  \/ Tick

SeqSpec == Init /\ [][SeqNext]_vars

\* interleaved requests over a CSPRNG run that repeats values
CollSpec == CollInit /\ [][Next]_vars

\* the statements of a metrics scrape interleave with those of createKey,
\* revokeKey and accessAndRotate requests (of an operator with a valid token
\* and of clients that present disclosed keys, within one hour)
MetricsNext ==
  \/ \E p \in Clients, rawKey \in disclosed : AccessLookup(p, rawKey)
  \/ \E p \in Clients : AccessUse(p)
  \/ \E p \in Clients : AccessAuditUsed(p)
  \/ \E p \in Clients : AccessRotate(p)
  \/ \E p \in Clients : AccessAuditRotated(p)
  \/ \E a \in Admins, bodyLabel \in Labels : CreateInsert(a, AdminToken, bodyLabel)
  \/ \E a \in Admins : CreateAudit(a)
  \/ \E a \in Admins, id \in KeyIds : RevokeSelect(a, AdminToken, id)
  \/ \E a \in Admins : RevokeUpdate(a)
  \/ \E a \in Admins : RevokeAudit(a)
  \/ ScrapeActive
  \/ ScrapeRevoked
  \/ ScrapeRotSum

MetricsSpec == Init /\ [][MetricsNext]_vars

\* no request is in flight
AllIdle == (\A p \in Procs : pc[p] = "idle") /\ scrape.pc = "idle"

\* what an operator or an attacker may put in the Authorization header: no
\* token, tokens not signed with the secret, the tokens that login has
\* returned, and those tokens with a later expiry or another username
AuthHeaders ==
  {NoToken, ForgedToken, MalformedToken}
    \cup {s.token : s \in sessions}
    \cup {[s.token EXCEPT !.exp = @ + TokenTTL] : s \in sessions}
    \cup {[s.token EXCEPT !.payload = [username |-> "root"]] : s \in sessions}

AuthAdminStep(a) ==
  \/ \E header \in AuthHeaders : AdminRejected(a, header)
  \/ \E header \in AuthHeaders : CreateInsert(a, header, "k1")
  \/ CreateAudit(a)
  \/ \E header \in AuthHeaders, id \in 1..(MaxKeys + 1) : RevokeSelect(a, header, id)
  \/ RevokeUpdate(a)
  \/ RevokeAudit(a)
  \/ \E header \in AuthHeaders : ListKeys(a, header)
  \/ \E header \in AuthHeaders : GetAudit(a, header)

\* time passes between two requests, for longer than a session lasts
AuthTick ==
  /\ now < MaxAuthTime
  /\ AllIdle
  /\ now' = now + 1
  /\ UNCHANGED <<api_keys, audit_logs, rng, pc, req, resp, issued, grantLog, revokedOk, disclosed>>
  /\ UNCHANGED serviceVars

\* one request at a time, with logins, restarts and metrics scrapes: the
\* operator's requests carry the tokens that login has returned
AuthNext ==
  \/ \E p \in Clients, rawKey \in disclosed : AllIdle /\ AccessLookup(p, rawKey)
  \/ \E p \in Clients : AccessUse(p)
  \/ \E p \in Clients : AccessAuditUsed(p)
  \/ \E p \in Clients : AccessRotate(p)
  \/ \E p \in Clients : AccessAuditRotated(p)
  \/ \E a \in Admins : Alone(a) /\ scrape.pc = "idle" /\ AuthAdminStep(a)
  \/ \E username \in Usernames, password \in Passwords : AllIdle /\ Login(username, password)
  \/ Restart
  \/ AllIdle /\ ScrapeActive
  \/ ScrapeRevoked
  \/ ScrapeRotSum
  \/ AuthTick

AuthSpec == Init /\ [][AuthNext]_vars

\* one request at a time, where any audit write may fail
FaultNext ==
  \/ \E p \in Clients : Alone(p) /\ ClientStep(p)
  \/ \E a \in Admins : Alone(a) /\ AdminStep(a)
  \/ \E p \in Clients : AccessAuditUsedFails(p)
  \/ \E p \in Clients : AccessAuditRotatedFails(p)
  \/ \E a \in Admins : CreateAuditFails(a)
  \/ \E a \in Admins : RevokeAuditFails(a)
  \/ Tick

FaultSpec == Init /\ [][FaultNext]_vars

\* the actions of the audit entries, as the handlers write them
AuditActions == <<"CREATE_KEY", "KEY_USED", "KEY_ROTATED", "REVOKE_KEY">>

\* an audit table of n entries as a long run leaves it: entry i has id i,
\* the actions alternate from the s-th on, over two keys
LongLog(n, s) ==
  [i \in 1..n |->
     LET action == AuditActions[((i + s) % 4) + 1] IN
       [id |-> i, actor |-> IF action \in {"KEY_USED", "KEY_ROTATED"} THEN "client" ELSE "admin",
        action |-> action, target_type |-> "api_key", target_id |-> (i % 2) + 1]]

\* getRecentAudit reads the audit table only: the runs start from audit
\* tables of up to MaxAuditLen entries
AuditInit ==
  /\ api_keys = <<>>
  /\ audit_logs \in {LongLog(n, s) : n \in 0..MaxAuditLen, s \in 0..3}
  /\ rng \in Streams
  /\ now = 0
  /\ pc = [p \in Procs |-> "idle"]
  /\ req = [p \in Procs |-> NoReq]
  /\ resp = NoResp
  /\ issued = <<>>
  /\ grantLog = <<>>
  /\ revokedOk = {}
  /\ disclosed = {}
  /\ ServiceInit

AuditNext ==
  \/ \E a \in Admins, header \in Headers : GetAudit(a, header)
  \/ \E a \in Admins, header \in Headers : AdminRejected(a, header)
  \/ Tick

AuditSpec == AuditInit /\ [][AuditNext]_vars

\* the client component against the server: one accessAsset call at a time,
\* the operator creates and revokes keys between two calls
UiNext ==
  \/ \E k \in Presentable : UiEdit(k)
  \/ UiStart
  \/ \E p \in Clients : UiRequest(p)
  \/ \E p \in Clients : AccessUse(p)
  \/ \E p \in Clients : AccessAuditUsed(p)
  \/ \E p \in Clients : AccessRotate(p)
  \/ \E p \in Clients : AccessAuditRotated(p)
  \/ UiComplete
  \/ UiNetworkError
  \/ \E a \in Admins, bodyLabel \in Labels :
       ui.pc = "idle" /\ CreateInsert(a, AdminToken, bodyLabel)
  \/ \E a \in Admins : CreateAudit(a)
  \/ \E a \in Admins, id \in KeyIds : ui.pc = "idle" /\ RevokeSelect(a, AdminToken, id)
  \/ \E a \in Admins : RevokeUpdate(a)
  \/ \E a \in Admins : RevokeAudit(a)

UiSpec == Init /\ [][UiNext]_vars

(* ------------------------ history, for the claims -------------------- *)
\* the raw key most recently written to row id (by createKey or a rotation)
Latest(id) ==
  LET js == {j \in 1..Len(issued) : issued[j].id = id}
  IN issued[CHOOSE j \in js : \A m \in js : m <= j].raw

\* the raw keys that createKey returned as raw_key_once, with their key id
CreatedBy(rawKey, id) ==
  \E j \in 1..Len(issued) :
    issued[j] = [raw |-> rawKey, id |-> id, via |-> "create"]

\* granted accesses that presented rawKey
GrantsOf(rawKey) == {j \in 1..Len(grantLog) : grantLog[j].raw = rawKey}

\* request slot p has passed authentication and has not answered yet
Authenticated(p) == pc[p] \in {"use", "auditUsed", "rotate", "auditRotated"}

\* every value a client can send as x-api-key
AllRaw == PoolKeys \cup {NoKey, Garbage}

\* accessAndRotate would authenticate rawKey against row id
AcceptedFor(rawKey, id) ==
  /\ authenticateKey(rawKey).status = 200
  /\ authenticateKey(rawKey).row.id = id

(* -------------------------------- claims ----------------------------- *)

\* C1: with requests processed one at a time, an access that presents the
\* raw_key_once of a createKey, while no access with that value has been
\* granted and the key is not revoked, is authenticated and ends granted (200
\* with a rotated key); once an access with that value has been granted, an
\* access presenting the same value is answered 401 InvalidKey.
C1_FirstUseGrantedThenInvalid ==
  [][\A p \in Clients :
       /\ \A k \in Presentable, id \in KeyIds :
            (AccessLookup(p, k) /\ CreatedBy(k, id)) =>
              /\ (GrantsOf(k) = {} /\ api_keys[id].status = "ACTIVE") => pc'[p] = "use"
              /\ GrantsOf(k) # {} =>
                   /\ resp' = Response(401, "Invalid key", NoKey, 0, k)
                   /\ pc'[p] = "idle"
       /\ AccessRotate(p) => pc'[p] = "auditRotated"
       /\ AccessAuditRotated(p) =>
            /\ resp'.status = 200
            /\ resp'.presented = req[p].rawKey
            /\ pc'[p] = "idle"
    ]_vars

\* a created key's raw_key_once was granted once, and its second presentation
\* has just been answered 401
C1_Witness ==
  /\ resp.status = 401
  /\ resp.presented # Garbage
  /\ \E id \in KeyIds : CreatedBy(resp.presented, id)
  /\ GrantsOf(resp.presented) # {}

C4_OneValidKeyPerActiveRow ==
  \A id \in KeyIds :
    api_keys[id].status = "ACTIVE" =>
      {k \in AllRaw : AcceptedFor(k, id)} = {Latest(id)}

\* two ACTIVE rows, one of them rotated
C4_Witness ==
  \E i, j \in KeyIds :
    /\ i # j
    /\ api_keys[i].status = "ACTIVE" /\ api_keys[j].status = "ACTIVE"
    /\ api_keys[i].rotation_count >= 1
    /\ Latest(i) # Latest(j)

C6_RotatedKeyIsTheNewSecret ==
  [][\A p \in Clients :
       /\ AccessRotate(p) =>
            LET id == req[p].row.id
                newKey == req'[p].newKey
            IN /\ pc'[p] = "auditRotated"
               /\ newKey # req[p].rawKey
               /\ newKey # NoKey
               /\ api_keys'[id].key_fingerprint = fingerprintKey(newKey)
               /\ compareSync(newKey, api_keys'[id].key_hash)
               /\ api_keys'[id].key_last4 = Last4(newKey)
       /\ AccessAuditRotated(p) =>
            /\ resp'.status = 200
            /\ resp'.key = req[p].newKey
            /\ resp'.key # resp'.presented
       /\ \A j \in 1..Len(grantLog) :
            LET e == grantLog[j] IN
              ( /\ AccessLookup(p, e.rotated)
                /\ api_keys[e.id].status = "ACTIVE"
                /\ Latest(e.id) = e.rotated )
              => (pc'[p] = "use" /\ req'[p].row.id = e.id)
    ]_vars

\* the rotated key of a granted access has been presented and granted in turn
C6_Witness ==
  \E i, j \in 1..Len(grantLog) :
    /\ i < j
    /\ grantLog[j].raw = grantLog[i].rotated
    /\ grantLog[j].id = grantLog[i].id
    /\ resp.status = 200 /\ resp.presented = grantLog[i].rotated

\* C7: a row whose status is REVOKED is REVOKED after every step.
C7_RevokedStaysRevoked ==
  [][\A id \in KeyIds :
       api_keys[id].status = "REVOKED" =>
         (id \in 1..Len(api_keys') /\ api_keys'[id].status = "REVOKED")
    ]_vars

\* a revoked row that a rotation has written to after the revoke
C7_Witness ==
  \E id \in KeyIds :
    /\ api_keys[id].status = "REVOKED"
    /\ api_keys[id].last_rotated_at # NullTime
    /\ \E j, m \in 1..Len(audit_logs) :
         /\ j < m
         /\ audit_logs[j].action = "REVOKE_KEY" /\ audit_logs[j].target_id = id
         /\ audit_logs[m].action = "KEY_ROTATED" /\ audit_logs[m].target_id = id

\* C8: an access whose lookup runs while the key's status is REVOKED and that
\* presents the raw key written last to that row is answered 403 KeyNotActive:
\* it is not authenticated and writes nothing.
C8_RevokedKeyIsRefused ==
  [][\A p \in Clients, k \in Presentable, id \in KeyIds :
       ( /\ AccessLookup(p, k)
         /\ api_keys[id].status = "REVOKED"
         /\ Latest(id) = k )
       => /\ resp' = Response(403, "Key not active (REVOKED)", NoKey, 0, k)
          /\ pc'[p] = "idle"
          /\ api_keys' = api_keys
          /\ audit_logs' = audit_logs
          /\ grantLog' = grantLog
    ]_vars

\* the latest raw key of a revoked row has been presented and answered 403
C8_Witness ==
  /\ resp.status = 403
  /\ \E id \in KeyIds :
       /\ api_keys[id].status = "REVOKED"
       /\ Latest(id) = resp.presented
       /\ api_keys[id].rotation_count >= 1

RotationsDone(id) ==
  Cardinality({j \in 1..Len(grantLog) : grantLog[j].id = id})
  + Cardinality({p \in Clients : pc[p] = "auditRotated" /\ req[p].row.id = id})

C10_RotationCountCountsGrants ==
  [][/\ \A id \in KeyIds :
          /\ api_keys'[id].rotation_count >= api_keys[id].rotation_count
          /\ api_keys'[id].rotation_count # api_keys[id].rotation_count =>
               /\ api_keys'[id].rotation_count = api_keys[id].rotation_count + 1
               /\ \E p \in Clients : AccessRotate(p) /\ req[p].row.id = id
     /\ \A id \in 1..Len(api_keys') :
          api_keys'[id].rotation_count = RotationsDone(id)'
    ]_vars

\* two accesses have been granted on one row, its rotation_count is 2
C10_Witness ==
  \E id \in KeyIds :
    /\ api_keys[id].rotation_count = 2
    /\ Cardinality({j \in 1..Len(grantLog) : grantLog[j].id = id}) = 2

\* the audit entries with the given action and target id
AuditCount(logs, action, id) ==
  Cardinality({j \in 1..Len(logs) : logs[j].action = action /\ logs[j].target_id = id})

\* C11: the INSERT of a createKey with a verified session appends one row
\* with a new id, status ACTIVE, rotation_count 0 and the label of the body
\* ("default" when the body has none) and leaves the other rows and the audit
\* log alone; the handler's last step appends one CREATE_KEY entry for the new
\* id, changes no row and answers 200 with the id, label, status and
\* key_last4 of the new row and the raw key whose fingerprint the row holds;
\* every row has one CREATE_KEY entry once its createKey has answered.
C11_CreateAddsOneActiveRow ==
  [][\A a \in Admins :
       /\ \A header \in Headers, bodyLabel \in Labels :
            CreateInsert(a, header, bodyLabel) =>
              LET id == Len(api_keys) + 1 IN
                /\ Len(api_keys') = id
                /\ \A i \in KeyIds : api_keys'[i] = api_keys[i]
                /\ api_keys'[id].id = id
                /\ api_keys'[id].status = "ACTIVE"
                /\ api_keys'[id].rotation_count = 0
                /\ api_keys'[id].label = (IF bodyLabel = "" THEN "default" ELSE bodyLabel)
                /\ audit_logs' = audit_logs
       /\ CreateAudit(a) =>
            LET id == req[a].id IN
              /\ api_keys' = api_keys
              /\ audit_logs' = Append(audit_logs, audit_logs'[Len(audit_logs')])
              /\ audit_logs'[Len(audit_logs')].action = "CREATE_KEY"
              /\ audit_logs'[Len(audit_logs')].target_id = id
              /\ AuditCount(audit_logs, "CREATE_KEY", id) = 0
              /\ resp'.status = 200
              /\ resp'.id = id
              /\ Len(resp'.body) = 1
              /\ resp'.body[1].id = id
              /\ resp'.body[1].label = api_keys[id].label
              /\ resp'.body[1].status = "ACTIVE"
              /\ resp'.body[1].status = api_keys[id].status
              /\ resp'.body[1].key_last4 = api_keys[id].key_last4
              /\ resp'.key # NoKey
              /\ fingerprintKey(resp'.key) = api_keys[id].key_fingerprint
       /\ \A id \in 1..Len(api_keys') :
            AuditCount(audit_logs', "CREATE_KEY", id) =
              (IF pc'[a] = "auditCreate" /\ req'[a].id = id THEN 0 ELSE 1)
    ]_vars

\* a second key, created without a label, has just been returned
C11_Witness ==
  /\ Len(api_keys) = 2
  /\ resp.status = 200
  /\ resp.key # NoKey
  /\ resp.id = 2
  /\ Len(resp.body) = 1
  /\ resp.body[1].label = "default"
  /\ AuditCount(audit_logs, "CREATE_KEY", 2) = 1

\* the field names of the records in a response body that hold secret material
SecretFields == {"key_hash", "key_fingerprint", "raw_key_once", "rotated_key_once"}

\* no record of the body has a secret field or a raw key as its key_last4
NoRawKeyIn(body) ==
  \A i \in 1..Len(body) :
    /\ DOMAIN body[i] \cap SecretFields = {}
    /\ "key_last4" \in DOMAIN body[i] => body[i].key_last4 \notin PoolKeys

WithSecrets(keys, f) ==
  [i \in 1..Len(keys) |->
     [keys[i] EXCEPT !.key_hash = hashSync(f[i][1], f[i][2]),
                     !.key_fingerprint = fingerprintKey(f[i][1])]]

\* C13: a listKeys response has no raw key and no record with a key_hash or
\* key_fingerprint field, and it is the response that listKeys gives on every
\* store that differs from the current one only in the key_hash and
\* key_fingerprint of its rows.
C13_ListShowsMetadataOnly ==
  [][\A a \in Admins, header \in Headers :
       ListKeys(a, header) =>
         /\ resp'.status = 200
         /\ resp'.key = NoKey
         /\ Len(resp'.body) = Len(api_keys)
         /\ NoRawKeyIn(resp'.body)
         /\ \A f \in [KeyIds -> PoolKeys \X Salts] :
              SelectKeys(WithSecrets(api_keys, f)) = resp'.body
    ]_vars

\* the last response lists two keys, one of them rotated
C13_Witness ==
  /\ resp.status = 200
  /\ resp.key = NoKey
  /\ Len(resp.body) = 2
  /\ "rotation_count" \in DOMAIN resp.body[1]
  /\ \E i \in 1..2 : resp.body[i].rotation_count >= 1

\* the fingerprint, hash and last4 of row are those of the raw key k
TripleOf(row, k) ==
  /\ row.key_fingerprint = fingerprintKey(k)
  /\ compareSync(k, row.key_hash)
  /\ row.key_last4 = Last4(k)

\* every row holds the fingerprint, a verifying hash and the last4 of the raw
\* key written to it last
TripleOfLatest == \A id \in KeyIds : TripleOf(api_keys[id], Latest(id))

\* the raw key that the most recent response for row id has returned: the
\* rotated key of the last granted access on the row, or the created key
LastReturned(id) ==
  LET js == {j \in 1..Len(grantLog) : grantLog[j].id = id}
  IN IF js = {}
     THEN issued[CHOOSE j \in 1..Len(issued) : issued[j].id = id /\ issued[j].via = "create"].raw
     ELSE grantLog[CHOOSE j \in js : \A m \in js : m <= j].rotated

C15_FingerprintsUnique ==
  \A i, j \in KeyIds :
    i # j => api_keys[i].key_fingerprint # api_keys[j].key_fingerprint

\* two rows exist and a rotation that drew the key of the other row has been
\* refused
C15_Witness ==
  /\ Len(api_keys) = 2
  /\ resp.status = 500
  /\ \E j \in 1..Len(audit_logs) : audit_logs[j].action = "KEY_USED"
  /\ \A p \in Procs : pc[p] = "idle"
  /\ \A id \in KeyIds : api_keys[id].rotation_count = 0

\* the rows whose key_fingerprint is the fingerprint of rawKey
Matching(rawKey) ==
  {id \in KeyIds : api_keys[id].key_fingerprint = fingerprintKey(rawKey)}

\* C16: the first step of an access answers 400 MissingKey for a missing
\* key, 401 InvalidKey for a key whose fingerprint no row holds, 403
\* KeyNotActive for a key whose fingerprint a row with another status than
\* ACTIVE holds; it goes on to the granted path only for a key whose
\* fingerprint an ACTIVE row holds and whose hash comparison succeeds, and it
\* always does one of these; only an access that took the granted path is
\* answered 200.
C16_FailureClasses ==
  [][\A p \in Clients :
       /\ \A k \in Presentable :
            AccessLookup(p, k) =>
              /\ k = NoKey =>
                   (resp' = Response(400, "Missing x-api-key header", NoKey, 0, k) /\ pc'[p] = "idle")
              /\ (k # NoKey /\ Matching(k) = {}) =>
                   (resp' = Response(401, "Invalid key", NoKey, 0, k) /\ pc'[p] = "idle")
              /\ (k # NoKey /\ \E id \in Matching(k) : api_keys[id].status # "ACTIVE") =>
                   (resp'.status = 403 /\ resp'.presented = k /\ pc'[p] = "idle")
              /\ pc'[p] = "use" =>
                   /\ k # NoKey
                   /\ \E id \in Matching(k) :
                        /\ api_keys[id].status = "ACTIVE"
                        /\ compareSync(k, api_keys[id].key_hash)
                        /\ req'[p].row = api_keys[id]
              /\ pc'[p] = "idle" => (resp'.status \in {400, 401, 403} /\ resp'.key = NoKey)
              /\ pc'[p] \in {"idle", "use"}
       /\ AccessAuditRotated(p) =>
            \E j \in 1..Len(audit_logs) :
              audit_logs[j] = [id |-> j, actor |-> "client", action |-> "KEY_USED",
                              target_type |-> "api_key", target_id |-> req[p].row.id]
    ]_vars

\* a missing key, an unknown key and a revoked key have each been refused:
\* the last response is the 403, and the store holds a key whose old value
\* now matches no row
C16_Witness ==
  /\ resp.status = 403
  /\ resp.error = "Key not active (REVOKED)"
  /\ \E k \in disclosed : Matching(k) = {}
  /\ \E id \in KeyIds : api_keys[id].status = "ACTIVE"

\* the accesses on row id that have written KEY_USED and not answered yet
UsedInFlight(id) ==
  Cardinality({p \in Clients : pc[p] \in {"rotate", "auditRotated"} /\ req[p].row.id = id})

\* C17: the lookup step of an access writes nothing, so an access refused
\* with 400, 401 or 403 leaves every key row and the audit log as they were;
\* last_used_at changes only in the step after a successful authentication;
\* and the KEY_USED entries of a key are as many as the accesses granted on it
\* plus the authenticated accesses on it that have still to answer.
C17_RefusedAccessWritesNothing ==
  [][/\ \A p \in Clients, k \in Presentable :
          AccessLookup(p, k) =>
            /\ api_keys' = api_keys
            /\ audit_logs' = audit_logs
            /\ pc'[p] = "idle" => resp'.status \in {400, 401, 403}
     /\ \A id \in KeyIds :
          api_keys'[id].last_used_at # api_keys[id].last_used_at =>
            \E p \in Clients : AccessUse(p) /\ req[p].row.id = id
     /\ \A id \in 1..Len(api_keys') :
          AuditCount(audit_logs', "KEY_USED", id) =
            Cardinality({j \in 1..Len(grantLog') : grantLog'[j].id = id}) + UsedInFlight(id)'
    ]_vars

\* the key of a revoked row that was never used has been refused, while
\* another key has been used
C17_Witness ==
  /\ resp.status = 403
  /\ \E id \in KeyIds :
       /\ Latest(id) = resp.presented
       /\ api_keys[id].last_used_at = NullTime
  /\ \E j \in 1..Len(audit_logs) : audit_logs[j].action = "KEY_USED"

\* C18: a revokeKey with a verified session for an id without a row answers
\* 404 and writes nothing; for an existing row its UPDATE sets status REVOKED,
\* revoked_at to the current time and revocation_reason MANUAL_REVOKE, leaves
\* the row's other columns and every other row alone, and its last step
\* appends one REVOKE_KEY entry for the id with the session's username as
\* actor, changes no row and answers ok.
C18_RevokeSetsRevoked ==
  [][\A a \in Admins :
       /\ \A header \in Headers, id \in 1..(MaxKeys + 1) :
            RevokeSelect(a, header, id) =>
              /\ api_keys' = api_keys
              /\ audit_logs' = audit_logs
              /\ id \notin KeyIds =>
                   (resp' = Response(404, "Key not found", NoKey, 0, NoKey) /\ pc'[a] = "idle")
              /\ id \in KeyIds => (pc'[a] = "revUpdate" /\ req'[a].id = id)
       /\ RevokeUpdate(a) =>
            LET id == req[a].id IN
              /\ Len(api_keys') = Len(api_keys)
              /\ api_keys'[id].status = "REVOKED"
              /\ api_keys'[id].revoked_at = now
              /\ api_keys'[id].revocation_reason = "MANUAL_REVOKE"
              /\ KeyMetadata(api_keys'[id]) =
                   [KeyMetadata(api_keys[id]) EXCEPT !.status = "REVOKED",
                                                     !.revoked_at = now,
                                                     !.revocation_reason = "MANUAL_REVOKE"]
              /\ api_keys'[id].key_hash = api_keys[id].key_hash
              /\ api_keys'[id].key_fingerprint = api_keys[id].key_fingerprint
              /\ \A i \in KeyIds \ {id} : api_keys'[i] = api_keys[i]
              /\ audit_logs' = audit_logs
              /\ pc'[a] = "auditRevoke"
       /\ RevokeAudit(a) =>
            /\ api_keys' = api_keys
            /\ audit_logs' =
                 Append(audit_logs,
                        [id |-> Len(audit_logs) + 1, actor |-> "admin", action |-> "REVOKE_KEY",
                         target_type |-> "api_key", target_id |-> req[a].id])
            /\ resp'.status = 200
            /\ resp'.error = ""
            /\ req[a].id \in revokedOk'
            /\ api_keys[req[a].id].status = "REVOKED"
    ]_vars

\* of two keys one has been revoked at hour 1 and revokeKey has answered ok,
\* the other one is ACTIVE and the log has one REVOKE_KEY entry
C18_Witness ==
  /\ Len(api_keys) = 2
  /\ resp = Response(200, "", NoKey, 1, NoKey)
  /\ api_keys[1].status = "REVOKED"
  /\ api_keys[1].revoked_at = 1
  /\ api_keys[2].status = "ACTIVE"
  /\ AuditCount(audit_logs, "REVOKE_KEY", 1) = 1
  /\ AuditCount(audit_logs, "REVOKE_KEY", 2) = 0

\* C19: a revokeKey on a key that is already REVOKED either is refused with
\* an error before any write, or answers ok and changes nothing: its UPDATE
\* leaves the key rows (revoked_at included) as they are and no audit entry
\* is appended.
C19_RevokeOfRevokedIsNoOp ==
  [][\A a \in Admins :
       /\ \A header \in Headers, id \in KeyIds :
            (RevokeSelect(a, header, id) /\ api_keys[id].status = "REVOKED") =>
              \/ pc'[a] = "revUpdate"
              \/ (pc'[a] = "idle" /\ resp'.status \in 400..499)
       /\ (RevokeUpdate(a) /\ api_keys[req[a].id].status = "REVOKED") =>
            api_keys' = api_keys
       /\ (RevokeAudit(a) /\ req[a].id \in revokedOk) =>
            (audit_logs' = audit_logs /\ resp'.status = 200)
    ]_vars

\* a request with this Authorization header carries no valid session at time
\* t: no token, or a token that is not signed with the secret, or an expired one
InvalidSession(header, t) ==
  \/ header = NoToken
  \/ header.sig # <<"HS256", header.payload, header.exp, JWT_SECRET>>
  \/ t >= header.exp

\* C20: with a missing, malformed, wrongly signed or expired token none of
\* createKey, listKeys, revokeKey and getRecentAudit runs its handler: the
\* request is answered 401 and no key row and no audit entry changes; with a
\* valid token the request is not refused; the first step of an access
\* depends on the presented key only.
C20_OperatorRoutesNeedSession ==
  [][/\ \A a \in Admins, header \in Headers :
          IF InvalidSession(header, now)
          THEN /\ \A bodyLabel \in Labels : ~CreateInsert(a, header, bodyLabel)
               /\ \A id \in 1..(MaxKeys + 1) : ~RevokeSelect(a, header, id)
               /\ ~ListKeys(a, header)
               /\ ~GetAudit(a, header)
               /\ AdminRejected(a, header) =>
                    /\ resp'.status = 401
                    /\ resp'.key = NoKey
                    /\ resp'.body = <<>>
                    /\ api_keys' = api_keys
                    /\ audit_logs' = audit_logs
                    /\ pc' = pc
          ELSE ~AdminRejected(a, header)
     /\ \A p \in Clients, k \in Presentable :
          AccessLookup(p, k) => (pc'[p] = "use" <=> authenticateKey(k).status = 200)
    ]_vars

\* in hour 1 the token of the earlier login has expired and a request has
\* been refused with 401 Invalid token, while keys exist and one access has
\* been granted
C20_Witness ==
  /\ now = 1
  /\ InvalidSession(OldToken, now)
  /\ ~InvalidSession(OldToken, 0)
  /\ resp = Response(401, "Invalid token", NoKey, 0, NoKey)
  /\ Len(api_keys) >= 1
  /\ Len(grantLog) >= 1

\* s is a prefix of t
IsPrefix(s, t) == Len(s) <= Len(t) /\ SubSeq(t, 1, Len(s)) = s

\* C24: the audit log is append-only: every step leaves the log as it is or
\* extends it, so the log of an earlier state is a prefix of the log of every
\* later state, and the ids of the entries are strictly increasing.
C24_AuditLogAppendOnly ==
  [][/\ IsPrefix(audit_logs, audit_logs')
     /\ \A i, j \in 1..Len(audit_logs') :
          i < j => audit_logs'[i].id < audit_logs'[j].id
    ]_vars

\* the log holds entries of all four audited operations
C24_Witness ==
  /\ Len(audit_logs) >= 4
  /\ \A action \in {"CREATE_KEY", "KEY_USED", "KEY_ROTATED", "REVOKE_KEY"} :
       \E i \in 1..Len(audit_logs) : audit_logs[i].action = action

\* C28: when KEY_PEPPER is not configured the service does not run: no
\* request creates a key, computes a fingerprint or looks one up (with the
\* default pepper).
C28_NoServiceWithoutPepper ==
  [][env.KEY_PEPPER = "" =>
       /\ \A a \in Admins, header \in Headers, bodyLabel \in Labels :
            ~CreateInsert(a, header, bodyLabel)
       /\ \A p \in Clients, rawKey \in Presentable \ {NoKey} : ~AccessLookup(p, rawKey)
       /\ \A p \in Clients : ~AccessRotate(p)
    ]_vars

C30_ListReturnsEveryRowNewestFirst ==
  [][\A a \in Admins, header \in Headers :
       ListKeys(a, header) =>
         /\ resp'.status = 200
         /\ Len(resp'.body) = Len(api_keys)
         /\ \A id \in KeyIds :
              \E i \in 1..Len(resp'.body) :
                /\ resp'.body[i].id = id
                /\ resp'.body[i].status = api_keys[id].status
         /\ \A i, j \in 1..Len(resp'.body) :
              i < j => resp'.body[i].id > resp'.body[j].id
    ]_vars

\* the last response lists key 2 and then key 1, one of them ACTIVE and the
\* other REVOKED
C30_Witness ==
  /\ resp.status = 200
  /\ Len(resp.body) = 2
  /\ "revoked_at" \in DOMAIN resp.body[1]
  /\ resp.body[1].id = 2
  /\ resp.body[2].id = 1
  /\ {resp.body[1].status, resp.body[2].status} = {"ACTIVE", "REVOKED"}

\* verifySession (requireAuth) at the current time: a header is accepted only
\* if a login has issued it less than TokenTTL hours ago, and its payload names
\* the user of that login; a token issued TokenTTL hours ago or earlier is
\* refused
SessionGate ==
  /\ \A header \in AuthHeaders :
       requireAuth(header, now) =>
         \E s \in sessions :
           /\ s.token = header
           /\ now - s.iat < TokenTTL
           /\ header.payload.username = s.username
  /\ \A s \in sessions : now - s.iat >= TokenTTL => ~requireAuth(s.token, now)

\* C21: a session token is accepted only if a successful login issued it
\* less than 2 hours ago, the identity that the handlers take from it is the
\* username of that login, and since the clock never goes back a token that
\* has expired is refused in every later state.
C21_SessionTokenLifetime ==
  [][/\ SessionGate
     /\ SessionGate'
     /\ now' >= now
     /\ \A a \in Admins, header \in AuthHeaders :
          /\ (CreateInsert(a, header, "k1") /\ pc'[a] = "auditCreate") =>
               \E s \in sessions : s.token = header /\ req'[a].actor = s.username
          /\ \A id \in KeyIds :
               RevokeSelect(a, header, id) =>
                 \E s \in sessions : s.token = header /\ req'[a].actor = s.username
    ]_vars

\* the one session has expired and the last request was refused with 401
\* Invalid token, after that session had created a key
C21_Witness ==
  /\ Cardinality(sessions) = 1
  /\ \A s \in sessions : now - s.iat >= TokenTTL /\ ~requireAuth(s.token, now)
  /\ resp = Response(401, "Invalid token", NoKey, 0, NoKey)
  /\ \E i \in 1..Len(audit_logs) :
       audit_logs[i].action = "CREATE_KEY" /\ audit_logs[i].actor = "admin"

\* the credentials match a row of users
CredentialsMatch(username, password) ==
  /\ SelectUser(username) # NoUser
  /\ compareSync(password, SelectUser(username).password_hash)

\* C22: login gives one and the same response (401, Invalid credentials) to
\* an unknown username and to a known username with a wrong password, and it
\* returns a token only when the username exists and the password matches
\* the stored hash.
C22_LoginFailuresAlike ==
  [][/\ \A u1, u2 \in Usernames \ {""}, p1, p2 \in Passwords \ {""} :
          (~CredentialsMatch(u1, p1) /\ ~CredentialsMatch(u2, p2)) =>
            login(u1, p1, now) = login(u2, p2, now)
     /\ \A username \in Usernames, password \in Passwords :
          Login(username, password) =>
            /\ (username # "" /\ password # "" /\ ~CredentialsMatch(username, password)) =>
                 resp' = Response(401, "Invalid credentials", NoKey, 0, NoKey)
            /\ resp'.body # <<>> =>
                 /\ CredentialsMatch(username, password)
                 /\ resp'.body = <<[token |-> jwtSign([username |-> username], JWT_SECRET, now)]>>
            /\ resp'.body = <<>> => sessions' = sessions
    ]_vars

\* a login has failed with Invalid credentials after another one succeeded
C22_Witness ==
  /\ resp = Response(401, "Invalid credentials", NoKey, 0, NoKey)
  /\ sessions # {}
  /\ SelectUser("bob") = NoUser
  /\ SelectUser("admin") # NoUser /\ ~CredentialsMatch("admin", "letmein")

\* the rows of users with username 'admin'
AdminRows == {i \in 1..Len(users) : users[i].username = "admin"}

\* exactly one user 'admin', with the seeded password
SeededAdmin ==
  /\ Cardinality(AdminRows) = 1
  /\ \A i \in AdminRows : compareSync("admin123", users[i].password_hash)

\* C23: in every state, after restarts that run the seeding again and after
\* key operations, users holds exactly one user 'admin' with the seeded
\* password, and a login with admin/admin123 answers 200 with a token that
\* is not empty (and that the session gate accepts).
C23_SeededAdminLogsIn ==
  [][/\ SeededAdmin
     /\ SeededAdmin'
     /\ login("admin", "admin123", now).status = 200
     /\ Login("admin", "admin123") =>
          /\ resp'.status = 200
          /\ Len(resp'.body) = 1
          /\ resp'.body[1].token # NoToken
          /\ requireAuth(resp'.body[1].token, now)
    ]_vars

\* after a restart and with keys in the store the last response is the token
\* of a login
C23_Witness ==
  /\ boots >= 1
  /\ Len(api_keys) >= 1
  /\ resp.status = 200
  /\ \E s \in sessions : s.username = "admin" /\ resp.body = <<[token |-> s.token]>>

\* the actions that are audited
AuditedActions == {"CREATE_KEY", "KEY_USED", "KEY_ROTATED", "REVOKE_KEY"}

\* C25: every audit entry has one of the four key actions; a login (whatever
\* its outcome), listKeys, getRecentAudit and the three queries of a metrics
\* scrape leave the audit log and the key rows as they are.
C25_OnlyKeyActionsAudited ==
  [][/\ \A i \in 1..Len(audit_logs') : audit_logs'[i].action \in AuditedActions
     /\ \A username \in Usernames, password \in Passwords :
          Login(username, password) => (audit_logs' = audit_logs /\ api_keys' = api_keys)
     /\ \A a \in Admins, header \in AuthHeaders :
          (ListKeys(a, header) \/ GetAudit(a, header)) =>
            (audit_logs' = audit_logs /\ api_keys' = api_keys)
     /\ (ScrapeActive \/ ScrapeRevoked \/ ScrapeRotSum) =>
          (audit_logs' = audit_logs /\ api_keys' = api_keys)
    ]_vars

\* the last response is that of a metrics scrape, after a login and with
\* audit entries of three actions in the log
C25_Witness ==
  /\ sessions # {}
  /\ Len(resp.body) = 1
  /\ "active_keys_total" \in DOMAIN resp.body[1]
  /\ resp.body[1].active_keys_total + resp.body[1].revoked_keys_total >= 1
  /\ Cardinality({audit_logs[i].action : i \in 1..Len(audit_logs)}) >= 3

\* C26: a failing audit write does not block the operation: when the audit
\* INSERT of createKey, revokeKey or accessAndRotate fails, the request still
\* ends with its success response (200, with the raw key for createKey and
\* the rotated key for accessAndRotate, and the rotation still takes place
\* after a failed KEY_USED entry) and the key rows stay as written.
C26_AuditFailureDoesNotBlock ==
  [][/\ \A a \in Admins :
          /\ CreateAuditFails(a) =>
               /\ resp'.status = 200
               /\ resp'.key = req[a].newKey
               /\ api_keys' = api_keys
          /\ RevokeAuditFails(a) =>
               /\ resp'.status = 200
               /\ api_keys' = api_keys
     /\ \A p \in Clients :
          /\ AccessAuditUsedFails(p) =>
               /\ pc'[p] = "rotate"
               /\ api_keys' = api_keys
          /\ AccessAuditRotatedFails(p) =>
               /\ resp'.status = 200
               /\ resp'.key = req[p].newKey
               /\ api_keys' = api_keys
    ]_vars

\* the key that the first draw of the CSPRNG gives
NextKey == generateRawKey(Head(rng).bytes)

\* C27: when the fingerprint of the newly generated key is the
\* key_fingerprint of an existing row, createKey and the rotation fail: one
\* key is drawn and no other, no row is written, the request ends with an
\* error response (status 5xx, no key in it), and no two rows have the same
\* fingerprint.
C27_CollisionIsHardFailure ==
  [][/\ \A a \in Admins, header \in Headers, bodyLabel \in Labels :
          (/\ CreateInsert(a, header, bodyLabel)
           /\ \E i \in KeyIds : api_keys[i].key_fingerprint = fingerprintKey(NextKey)) =>
            /\ api_keys' = api_keys
            /\ issued' = issued
            /\ rng' = Tail(rng)
            /\ pc'[a] = "idle"
            /\ resp'.status \in 500..599
            /\ resp'.key = NoKey
     /\ \A p \in Clients :
          (/\ AccessRotate(p)
           /\ \E i \in KeyIds : api_keys[i].key_fingerprint = fingerprintKey(NextKey)) =>
            /\ api_keys' = api_keys
            /\ issued' = issued
            /\ rng' = Tail(rng)
            /\ pc'[p] = "idle"
            /\ resp'.status \in 500..599
            /\ resp'.key = NoKey
     /\ \A i, j \in 1..Len(api_keys') :
          api_keys'[i].key_fingerprint = api_keys'[j].key_fingerprint => i = j
    ]_vars

\* C31: the response of getRecentAudit holds min(50, n) entries of the n in
\* the log, they are the entries with the highest ids, and their ids are
\* strictly descending.
C31_RecentAuditNewestFirst ==
  [][\A a \in Admins, header \in Headers :
       GetAudit(a, header) =>
         LET n == Len(audit_logs)
             m == IF n <= AuditLimit THEN n ELSE AuditLimit
         IN /\ resp'.status = 200
            /\ Len(resp'.body) = m
            /\ \A i \in 1..m : resp'.body[i] = audit_logs[n + 1 - i]
            /\ \A i, j \in 1..m : i < j => resp'.body[i].id > resp'.body[j].id
            /\ \A e \in 1..n :
                 (\E i \in 1..m : resp'.body[i].id = audit_logs[e].id) <=> e > n - m
    ]_vars

\* the log is longer than the limit and the last response has the 50 newest
\* entries
C31_Witness ==
  /\ Len(audit_logs) > AuditLimit
  /\ Len(resp.body) = AuditLimit
  /\ resp.body[1] = audit_logs[Len(audit_logs)]
  /\ resp.body[AuditLimit] = audit_logs[Len(audit_logs) + 1 - AuditLimit]

KeyLog(logs, id) == SelectSeq(logs, LAMBDA e : e.target_id = id)

IdsIssued == {issued[j].id : j \in 1..Len(issued)} \cup {api_keys[i].id : i \in KeyIds}

\* C34: no key row is ever deleted and no id is used twice: every step keeps
\* each row under its id, the set of ids only grows, the rows have distinct
\* ids, and a create inserts and returns an id greater than every id that a
\* row has had before.
C34_IdsOnlyGrow ==
  [][/\ Len(api_keys') >= Len(api_keys)
     /\ \A i \in KeyIds : api_keys'[i].id = api_keys[i].id
     /\ {api_keys[i].id : i \in KeyIds} \subseteq {api_keys'[i].id : i \in 1..Len(api_keys')}
     /\ \A i, j \in 1..Len(api_keys') : api_keys'[i].id = api_keys'[j].id => i = j
     /\ \A a \in Admins, header \in Headers, label \in Labels :
          (CreateInsert(a, header, label) /\ api_keys' # api_keys) =>
            /\ Len(api_keys') = Len(api_keys) + 1
            /\ \A id \in IdsIssued : api_keys'[Len(api_keys')].id > id
            /\ req'[a].id = api_keys'[Len(api_keys')].id
     /\ \A a \in Admins :
          CreateAudit(a) =>
            /\ resp'.status = 200
            /\ resp'.id = req[a].id
            /\ resp'.body[1].id = req[a].id
            /\ \A id \in IdsIssued \ {req[a].id} : resp'.id > id
    ]_vars

\* two creates have returned ids 1 and 2, key 1 has been revoked and is still
\* a row
C34_Witness ==
  /\ Len(api_keys) = 2
  /\ api_keys[1].status = "REVOKED"
  /\ resp.status = 200
  /\ resp.id = 2
  /\ \E j \in 1..Len(issued) : issued[j].via = "create" /\ issued[j].id = 2

\* C35: whenever no request is in progress the audit log accounts for every
\* change of a key: there are as many CREATE_KEY entries as key rows, the
\* rotation_count of each key is the number of KEY_ROTATED entries and the
\* number of KEY_USED entries that target it, and a key is REVOKED exactly
\* when a REVOKE_KEY entry targets it.
C35_AuditAccountsForKeys ==
  (\A p \in Procs : pc[p] = "idle") =>
    /\ Cardinality({j \in 1..Len(audit_logs) : audit_logs[j].action = "CREATE_KEY"})
         = Len(api_keys)
    /\ \A id \in KeyIds :
         /\ AuditCount(audit_logs, "CREATE_KEY", id) = 1
         /\ api_keys[id].rotation_count = AuditCount(audit_logs, "KEY_ROTATED", id)
         /\ api_keys[id].rotation_count = AuditCount(audit_logs, "KEY_USED", id)
         /\ api_keys[id].status = "REVOKED" <=> AuditCount(audit_logs, "REVOKE_KEY", id) >= 1

\* C36: an access that has authenticated and then fails, at an audit write or
\* at the rotation UPDATE, leaves the key row as the request found it
\* (last_used_at, fingerprint, hash, last4 and rotation_count) and leaves no
\* audit entry of its own: no KEY_USED without its KEY_ROTATED.
C36_AccessAllOrNothing ==
  [][\A p \in Clients :
       (\/ AccessAuditUsedFails(p)
        \/ AccessAuditRotatedFails(p)
        \/ (AccessRotate(p) /\ resp'.status = 500)) =>
         LET id == req[p].row.id IN
           /\ api_keys'[id] = req[p].row
           /\ AuditCount(audit_logs', "KEY_USED", id) = AuditCount(audit_logs', "KEY_ROTATED", id)
    ]_vars

LastEntry(logs) == logs[Len(logs)]

\* C38: a create or revoke that passes the gate carries the token of a
\* successful login and takes that login's username as actor; its audit entry
\* (CREATE_KEY, REVOKE_KEY) has that actor and as target the id of the row it
\* inserted or revoked.  The KEY_USED and KEY_ROTATED entries of an access
\* have as target the id of the row whose fingerprint is that of the
\* presented key.
C38_AuditActorAndTarget ==
  [][/\ \A a \in Admins, header \in AuthHeaders :
          /\ (CreateInsert(a, header, "k1") /\ pc'[a] = "auditCreate") =>
               /\ \E s \in sessions : s.token = header /\ s.username = req'[a].actor
               /\ SelectUser(req'[a].actor) # NoUser
               /\ req'[a].id = Len(api_keys')
               /\ api_keys'[req'[a].id].key_fingerprint = fingerprintKey(req'[a].newKey)
          /\ \A id \in KeyIds :
               RevokeSelect(a, header, id) =>
                 /\ \E s \in sessions : s.token = header /\ s.username = req'[a].actor
                 /\ SelectUser(req'[a].actor) # NoUser
                 /\ req'[a].id = id
     /\ \A a \in Admins :
          /\ CreateAudit(a) =>
               /\ Len(audit_logs') = Len(audit_logs) + 1
               /\ LastEntry(audit_logs').action = "CREATE_KEY"
               /\ LastEntry(audit_logs').actor = req[a].actor
               /\ LastEntry(audit_logs').target_id = req[a].id
               /\ LastEntry(audit_logs').target_id = resp'.id
               /\ api_keys[req[a].id].key_fingerprint = fingerprintKey(resp'.key)
          /\ RevokeAudit(a) =>
               /\ Len(audit_logs') = Len(audit_logs) + 1
               /\ LastEntry(audit_logs').action = "REVOKE_KEY"
               /\ LastEntry(audit_logs').actor = req[a].actor
               /\ LastEntry(audit_logs').target_id = req[a].id
               /\ api_keys[req[a].id].status = "REVOKED"
     /\ \A p \in Clients :
          /\ \A rawKey \in disclosed :
               (AccessLookup(p, rawKey) /\ pc'[p] = "use") =>
                 /\ req'[p].row \in {api_keys[i] : i \in KeyIds}
                 /\ req'[p].row.key_fingerprint = clientFingerprintKey(rawKey)
                 /\ req'[p].rawKey = rawKey
          /\ AccessAuditUsed(p) =>
               /\ LastEntry(audit_logs').action = "KEY_USED"
               /\ LastEntry(audit_logs').target_id = req[p].row.id
               /\ req[p].row.key_fingerprint = clientFingerprintKey(req[p].rawKey)
          /\ AccessAuditRotated(p) =>
               /\ LastEntry(audit_logs').action = "KEY_ROTATED"
               /\ LastEntry(audit_logs').target_id = req[p].row.id
               /\ req[p].row.key_fingerprint = clientFingerprintKey(req[p].rawKey)
     /\ \A i \in 1..Len(audit_logs') :
          /\ audit_logs'[i].target_id \in 1..Len(api_keys')
          /\ audit_logs'[i].action \in {"CREATE_KEY", "REVOKE_KEY"} =>
               \E s \in sessions' : s.username = audit_logs'[i].actor
    ]_vars

\* with two keys, the older one has been used, rotated and then revoked by a
\* logged-in operator: the log holds the four kinds of entry for key 1
C38_Witness ==
  /\ Len(api_keys) = 2
  /\ \A action \in {"CREATE_KEY", "KEY_USED", "KEY_ROTATED", "REVOKE_KEY"} :
       AuditCount(audit_logs, action, 1) >= 1
  /\ AuditCount(audit_logs, "CREATE_KEY", 2) = 1
  /\ \E s \in sessions : s.username = LastEntry(audit_logs).actor
  /\ LastEntry(audit_logs).action = "REVOKE_KEY"

\* the row that accessAndRotate looks up for rawKey has been revoked
RevokedRowOf(rawKey) ==
  \E id \in KeyIds :
    /\ api_keys[id].key_fingerprint = clientFingerprintKey(rawKey)
    /\ api_keys[id].status = "REVOKED"

\* C39: in the client component, with one accessAsset call at a time: when a
\* call ends with a granted response the field apiKey holds the rotated key of
\* that response, which the server accepts; the call after a successful call,
\* with no edit of the field and no revoke of the key in between, is
\* authenticated and granted; after a failed call apiKey is unchanged; and
\* loading is false once a call has completed.
C39_ComponentFollowsRotation ==
  [][/\ UiComplete =>
          /\ ui'.loading = FALSE
          /\ ui'.pc = "idle"
          /\ resp.status = 200 =>
               /\ ui'.apiKey = resp.key
               /\ ui'.rotatedKey = resp.key
               /\ ui'.error = ""
               /\ authenticateKey(ui'.apiKey).status = 200
          /\ resp.status # 200 =>
               /\ ui'.apiKey = ui.apiKey
               /\ ui'.rotatedKey = NoKey
               /\ ui'.error = resp.error
          /\ (ui.prev = "ok" /\ resp.status # 200) => resp.status = 403
     /\ UiNetworkError =>
          /\ ui'.loading = FALSE
          /\ ui'.apiKey = ui.apiKey
          /\ ui'.error # ""
     /\ \A p \in Clients :
          (UiRequest(p) /\ ui.prev = "ok" /\ ~RevokedRowOf(ui.apiKey)) =>
            /\ pc'[p] = "use"
            /\ req'[p].rawKey = ui.apiKey
     /\ ui'.loading <=> ui'.pc = "sent"
    ]_vars

\* two calls in a row have been granted, the second with the key that the
\* first returned, and the field holds the key that the second returned
C39_Witness ==
  /\ Len(grantLog) = 2
  /\ grantLog[2].raw = grantLog[1].rotated
  /\ ui.pc = "idle"
  /\ ui.prev = "ok"
  /\ ~ui.loading
  /\ ui.apiKey = grantLog[2].rotated
  /\ ui.rotatedKey = ui.apiKey
  /\ authenticateKey(ui.apiKey).status = 200

====
